---- MODULE Spec2Model ----
(***************************************************************************)
(* Model of the audio acquisition and transcription pipeline of gengo:     *)
(*   internal/extractors/ytaudio/ytaudio.go  (Service.TranscribeYouTubeVideo,*)
(*                                            Service.downloadVideo)        *)
(*   internal/extractors/asr (Service.TranscribeAudio, convertToWAV,        *)
(*                            Service.TranscribeFile, loadAudioData)        *)
(* Several runs of TranscribeYouTubeVideo execute concurrently on one       *)
(* Service (one Config) and share the output directory.                     *)
(***************************************************************************)
EXTENDS Integers, Sequences, FiniteSets, TLC

\* ------------------------------------------------------------------ bounds
\* number of concurrent calls of TranscribeYouTubeVideo
NumRuns == 2
\* number of those calls whose ctx the caller cancels
MaxCancels == 1

Runs == 1..NumRuns

\* ------------------------------------------------------------------ state
VARIABLES
    now,          \* wall clock in seconds
    config,       \* s.config, read-only for the runs
    dirExists,    \* the output directory exists
    files,        \* the output directory: path -> content
    pc,           \* position of every run
    cancelledAt,  \* position of the run when its ctx was cancelled, or "none"
    videoPath,    \* videoPath local of the run
    child,        \* the ffmpeg child process of the run
    err,          \* error returned by the run (chain of wrapped messages)
    wav,          \* one call of loadAudioData: its file and what it returned
    run,          \* one call of TranscribeYouTubeVideo followed call by call
    find,         \* one call of FindWhisperModel: its environment and its result
    svc           \* the configurations and the services made by NewService

\* the concurrent runs
pipeline == <<now, config, dirExists, files, pc, cancelledAt, videoPath, child, err>>

\* the calls followed in detail
detail == <<wav, run, find, svc>>

vars == <<now, config, dirExists, files, pc, cancelledAt, videoPath, child, err,
          wav, run, find, svc>>

\* ------------------------------------------------------------------ paths
OutputDir == "/tmp/ytaudio"

Join(dir, name) == dir \o "/" \o name

\* baseFilename := fmt.Sprintf("video_%d", timestamp); Join(OutputDir, base+".mp4")
VideoPathOf(timestamp) == Join(OutputDir, "video_" \o ToString(timestamp) \o ".mp4")

\* wavPath := filepath.Join(tempDir, "temp_audio.wav")
WavPathOf(tempDir) == Join(tempDir, "temp_audio.wav")

NoPath == ""

\* ------------------------------------------------------------------ files
\* A file's content: the runs whose source data its bytes come from (origin),
\* the run whose writer created or truncated it last (by), whether it is the
\* finished output of that writer alone (whole), the writers that hold it
\* open, each with the origin of the data it writes (writers), and the runs
\* whose writers have opened this file since it was created (opened).
NoContent == [origin |-> {}, by |-> 0, whole |-> FALSE, writers |-> {}, opened |-> {}]

Exists(fs, p) == p \in DOMAIN fs

\* os.Create / ffmpeg -y (O_CREATE|O_TRUNC): the writer r opens p to write
\* data of origin src.  An existing file is truncated, it stays the same file
\* and the writers that hold it open go on writing into it.
OpenTrunc(fs, p, r, src) ==
    [q \in (DOMAIN fs) \cup {p} |->
        IF q = p
        THEN [origin |-> src, by |-> r, whole |-> FALSE,
              writers |-> (IF Exists(fs, p) THEN fs[p].writers ELSE {})
                            \cup {<<r, src>>},
              opened |-> (IF Exists(fs, p) THEN fs[p].opened ELSE {}) \cup {r}]
        ELSE fs[q]]

\* os.Remove: unlink p (no effect if absent; the error is ignored by callers)
Remove(fs, p) == [q \in (DOMAIN fs) \ {p} |-> fs[q]]

\* The writer r closes the file it opened at p (file.Close, the exit of the
\* child), having written all its data (finished) or not.  The results that
\* are possible: if the path was unlinked meanwhile, the path is unaffected.  If another writer truncated
\* the file after r opened it, the bytes r wrote since are in the file, or r
\* wrote none since.  If r truncated it last, the other writers that hold it
\* open have written into it since, or not yet.
EndWrite(fs, p, r, finished) ==
    IF ~Exists(fs, p) \/ ~\E x \in fs[p].writers : x[1] = r
    THEN {fs}
    ELSE LET c == fs[p]
             w == CHOOSE x \in c.writers : x[1] = r
             others == c.writers \ {w}
             After(origin) ==
                 [fs EXCEPT ![p] =
                    [origin |-> origin, by |-> c.by, writers |-> others,
                     opened |-> c.opened,
                     whole |-> IF c.by = r THEN finished /\ origin = w[2]
                               ELSE c.whole /\ origin = c.origin]]
         IN  IF c.by = r
             THEN {After(c.origin \cup UNION {m[2] : m \in M}) : M \in SUBSET others}
             ELSE {After(c.origin), After(c.origin \cup w[2])}

\* ------------------------------------------------------------------ errors
NoErr == <<>>

\* fmt.Errorf("msg: %w", e)
Wrap(msg, e) == <<msg>> \o e

CtxErr == <<"context canceled">>
\* cmd.Start fails: exec.LookPath found no ffmpeg, or the fork failed
StartErr == <<"exec: \"ffmpeg\": executable file not found in $PATH">>
KilledErr == <<"signal: killed">>
ExitErr == <<"exit status 1">>

\* root cause of an error chain
Cause(e) == e[Len(e)]

\* errors.Is(e, context.Canceled): the chain of %w wrappers ends in ctx.Err()
IsCtxErr(e) == e # NoErr /\ Cause(e) = "context canceled"

\* The failure kind of the error taxonomy that an error chain stands for: a
\* chain that ends in the ctx error is Cancelled, any other chain has the
\* kind of the stage whose message it carries.
Has(e, msg) == \E i \in 1..Len(e) : e[i] = msg

FailureKind(e) ==
    CASE IsCtxErr(e) -> "Cancelled"
      [] Has(e, "no audio formats found for video") -> "SourceUnavailable"
      [] Has(e, "failed to download video") -> "FetchFailed"
      [] Has(e, "ffmpeg failed") -> "TranscodeFailed"
      [] Has(e, "failed to load audio data") -> "InvalidFormat"
      [] Has(e, "whisper model file not found") -> "ModelNotFound"
      [] Has(e, "failed to transcribe audio") -> "InferenceFailed"
      [] OTHER -> "Unclassified"

\* ------------------------------------------------------------------ positions
\* Position of a run: the blocking call it is in.
\*   Resolving    downloadVideo, before io.Copy (GetVideo .. os.Create)
\*   Fetching     downloadVideo, in io.Copy
\*   Transcoding  convertToWAV, the ffmpeg child is running
\*   Loading      TranscribeFile, before loadAudioData reads the WAV
\*   Inferring    TranscribeFile, in context.Process and the segment loop
\*   Unwinding    TranscribeAudio, TranscribeFile has returned, before the
\*                deferred remove
\*   Cleaning     TranscribeYouTubeVideo, TranscribeAudio has returned
Terminal == {"Completed", "Failed"}

Active == {"Resolving", "Fetching", "Transcoding", "Loading", "Inferring",
           "Unwinding", "Cleaning"}

\* ctx.Done() of run r is closed
Done(r) == cancelledAt[r] # "none"

\* exec.CommandContext(ctx, "ffmpeg", ...): the command is bound to ctx, so a
\* done ctx refuses Start and kills a started child
ChildObservesCtx(ctxDone) == ctxDone

\* ------------------------------------------------------------------ Init
PipelineInit ==
    /\ now = 0
    /\ config \in [CleanupFiles : BOOLEAN]
    /\ dirExists = FALSE
    /\ files = << >>
    /\ pc = [r \in Runs |-> "Idle"]
    /\ cancelledAt = [r \in Runs |-> "none"]
    /\ videoPath = [r \in Runs |-> NoPath]
    /\ child = [r \in Runs |-> "none"]
    /\ err = [r \in Runs |-> NoErr]

\* no call is followed in detail
NoDetail == [pc |-> "none"]

Init ==
    /\ PipelineInit
    /\ wav = NoDetail
    /\ run = NoDetail
    /\ find = NoDetail
    /\ svc = NoDetail

\* the run r returns the error e; its locals go out of scope
Fail(r, e) ==
    /\ pc' = [pc EXCEPT ![r] = "Failed"]
    /\ err' = [err EXCEPT ![r] = e]
    /\ videoPath' = [videoPath EXCEPT ![r] = NoPath]

Goto(r, p) ==
    /\ pc' = [pc EXCEPT ![r] = p]
    /\ UNCHANGED <<err, videoPath>>

\* ------------------------------------------------------------------ environment
\* a second passes.  Only the seconds in which a call reads the clock are
\* told apart: the clock is followed while calls are still to come, and it
\* moves on after a second that some call has read.
Tick ==
    /\ \E r \in Runs : pc[r] = "Idle"
    /\ now < Cardinality({r \in Runs : pc[r] # "Idle"})
    /\ now' = now + 1
    /\ UNCHANGED <<config, dirExists, files, pc, cancelledAt, videoPath, child, err>>
    /\ UNCHANGED detail

\* the caller cancels the ctx of run r (possibly before the run starts)
Cancel(r) ==
    /\ pc[r] \notin Terminal
    /\ ~Done(r)
    /\ Cardinality({q \in Runs : Done(q)}) < MaxCancels
    /\ cancelledAt' = [cancelledAt EXCEPT ![r] = pc[r]]
    /\ UNCHANGED <<now, config, dirExists, files, pc, videoPath, child, err>>
    /\ UNCHANGED detail

\* ------------------------------------------------------------------ TranscribeYouTubeVideo
\* os.MkdirAll, then the filename from the clock.  The calls are numbered
\* in the order in which they enter the function.
Start(r) ==
    /\ pc[r] = "Idle"
    /\ \A q \in Runs : q < r => pc[q] # "Idle"
    /\ \/ /\ dirExists' = TRUE
          /\ pc' = [pc EXCEPT ![r] = "Resolving"]
          /\ videoPath' = [videoPath EXCEPT ![r] = VideoPathOf(now)]
          /\ UNCHANGED err
       \/ /\ ~dirExists
          /\ Fail(r, Wrap("failed to create output directory", <<"mkdir">>))
          /\ UNCHANGED dirExists
    /\ UNCHANGED <<now, config, files, cancelledAt, child>>
    /\ UNCHANGED detail

\* ------------------------------------------------------------------ downloadVideo
\* return "", fmt.Errorf("failed to download video: %w", err)
DownloadErr(e) == Wrap("failed to download video", e)

\* client.GetVideo, WithAudioChannels, best format, client.GetStream,
\* os.Create(outputPath); ctx is not consulted
Resolve(r) ==
    /\ pc[r] = "Resolving"
    /\ \/ /\ files' = OpenTrunc(files, videoPath[r], r, {r})
          /\ Goto(r, "Fetching")
       \/ /\ \E e \in {Wrap("failed to get video info", <<"network">>),
                       <<"no audio formats found for video">>,
                       Wrap("failed to get video stream", <<"network">>),
                       Wrap("failed to create output file", <<"open">>)} :
               Fail(r, DownloadErr(e))
          /\ UNCHANGED files
    /\ UNCHANGED <<now, config, dirExists, cancelledAt, child>>
    /\ UNCHANGED detail

\* ------------------------------------------------------------------ convertToWAV
\* the error TranscribeYouTubeVideo returns when cmd.CombinedOutput returned e
ConvertErr(e) ==
    Wrap("failed to transcribe audio",
         Wrap("failed to convert audio to WAV", Wrap("ffmpeg failed", e)))

\* io.Copy(file, stream) (ctx is not consulted).  When it fails the file is
\* closed as it is.  When it succeeds downloadVideo returns and
\* TranscribeAudio starts the ffmpeg child with cmd.CombinedOutput(): the
\* start fails, or a done ctx refuses it, or the child runs and the run
\* waits for it.
Copy(r) ==
    /\ pc[r] = "Fetching"
    /\ \/ /\ files' \in EndWrite(files, videoPath[r], r, FALSE)
          /\ Fail(r, DownloadErr(Wrap("failed to copy video", <<"network">>)))
          /\ UNCHANGED child
       \/ /\ files' \in EndWrite(files, videoPath[r], r, TRUE)
          /\ Fail(r, ConvertErr(StartErr))
          /\ UNCHANGED child
       \/ /\ ChildObservesCtx(Done(r))
          /\ files' \in EndWrite(files, videoPath[r], r, TRUE)
          /\ Fail(r, ConvertErr(CtxErr))
          /\ UNCHANGED child
       \/ /\ ~ChildObservesCtx(Done(r))
          /\ files' \in EndWrite(files, videoPath[r], r, TRUE)
          /\ child' = [child EXCEPT ![r] = "started"]
          /\ Goto(r, "Transcoding")
    /\ UNCHANGED <<now, config, dirExists, cancelledAt>>
    /\ UNCHANGED detail

\* the child opens its input and creates (or truncates, -y) its output
FfmpegOpens(r) ==
    /\ pc[r] = "Transcoding"
    /\ child[r] = "started"
    /\ Exists(files, videoPath[r])
    /\ files' = OpenTrunc(files, WavPathOf(OutputDir), r, files[videoPath[r]].origin)
    /\ child' = [child EXCEPT ![r] = "running"]
    /\ UNCHANGED <<now, config, dirExists, pc, cancelledAt, videoPath, err>>
    /\ UNCHANGED detail

\* the child exits by itself, whether the ctx is done or not, and
\* CombinedOutput returns.  A child that has written its output exits with
\* status 0: Wait returns nil, or the ctx error when the ctx watcher sent
\* its signal to the child that had already exited.  A child exits with a
\* non-zero status before it has opened its files (its input is missing or
\* unreadable) or while it writes its output.
FfmpegExit(r) ==
    /\ pc[r] = "Transcoding"
    /\ child[r] \in {"started", "running"}
    /\ child' = [child EXCEPT ![r] = "exited"]
    /\ \/ /\ child[r] = "running"
          /\ files' \in EndWrite(files, WavPathOf(OutputDir), r, TRUE)
          /\ \/ Goto(r, "Loading")
             \/ /\ ChildObservesCtx(Done(r))
                /\ Fail(r, ConvertErr(CtxErr))
       \/ /\ files' \in EndWrite(files, WavPathOf(OutputDir), r, FALSE)
          /\ Fail(r, ConvertErr(ExitErr))
    /\ UNCHANGED <<now, config, dirExists, cancelledAt>>
    /\ UNCHANGED detail

\* the ctx watcher of the command kills the child; Wait reports the signal
WatchCtx(r) ==
    /\ pc[r] = "Transcoding"
    /\ child[r] \in {"started", "running"}
    /\ ChildObservesCtx(Done(r))
    /\ child' = [child EXCEPT ![r] = "killed"]
    /\ files' \in EndWrite(files, WavPathOf(OutputDir), r, FALSE)
    /\ Fail(r, ConvertErr(KilledErr))
    /\ UNCHANGED <<now, config, dirExists, cancelledAt>>
    /\ UNCHANGED detail

\* ------------------------------------------------------------------ TranscribeAudio
\* mutant of DeferredRemove: the remove is not deferred, the WAV is left
DeferredRemove_Missing(fs) == fs

\* defer os.Remove(wavPath), registered once convertToWAV has succeeded
DeferredRemove(fs) == Remove(fs, WavPathOf(OutputDir))

\* TranscribeFile returns to TranscribeAudio, with the error e or with its
\* result (NoErr); the deferred remove is still to run
ReturnFile(r, e) ==
    /\ pc' = [pc EXCEPT ![r] = "Unwinding"]
    /\ err' = [err EXCEPT ![r] = e]
    /\ UNCHANGED <<files, videoPath>>

\* ------------------------------------------------------------------ TranscribeFile
\* the WAV file loadAudioData would read now
WavRead == IF Exists(files, WavPathOf(OutputDir))
           THEN files[WavPathOf(OutputDir)] ELSE NoContent

\* os.Stat(model), whisper.New, model.NewContext, SetLanguage, then
\* loadAudioData reads the WAV file.  A file that is there but is not the
\* finished output of one ffmpeg child is accepted, or it is empty, its
\* header is cut or overwritten, or its payload has an odd length.
LoadAudio(r) ==
    /\ pc[r] = "Loading"
    /\ \/ \E e \in {<<"whisper model file not found">>,
                    Wrap("failed to load whisper model", <<"whisper">>),
                    Wrap("failed to create whisper context", <<"whisper">>),
                    Wrap("failed to set language", <<"whisper">>)} :
            ReturnFile(r, e)
       \/ \E e \in IF ~Exists(files, WavPathOf(OutputDir))
                   THEN {Wrap("failed to open audio file", <<"open">>)}
                   ELSE IF ~WavRead.whole
                   THEN {Wrap("failed to read WAV header", <<"EOF">>),
                         <<"invalid WAV file format">>,
                         <<"unexpected audio format">>,
                         <<"invalid audio data length for 16-bit samples">>}
                   ELSE {} :
            ReturnFile(r, Wrap("failed to load audio data", e))
       \/ /\ Exists(files, WavPathOf(OutputDir))
          /\ Goto(r, "Inferring")
          /\ UNCHANGED files
    /\ UNCHANGED <<now, config, dirExists, cancelledAt, child>>
    /\ UNCHANGED detail

\* context.Process and the NextSegment loop (ctx is not consulted), then
\* TranscribeFile returns its result or its error
Process(r) ==
    /\ pc[r] = "Inferring"
    /\ \E e \in {NoErr,
                Wrap("failed to process audio", <<"whisper">>),
                Wrap("failed to get segment", <<"whisper">>)} :
          ReturnFile(r, e)
    /\ UNCHANGED <<now, config, dirExists, cancelledAt, child>>
    /\ UNCHANGED detail

\* TranscribeAudio returns what TranscribeFile returned: the deferred
\* remove of the WAV path runs
Unwind(r) ==
    /\ pc[r] = "Unwinding"
    /\ files' = DeferredRemove(files)
    /\ Goto(r, "Cleaning")
    /\ UNCHANGED <<now, config, dirExists, cancelledAt, child>>
    /\ UNCHANGED detail

\* mutant of CleanupMedia: the flag is not consulted
CleanupMedia_Always(fs, cfg, p) == Remove(fs, p)

\* if s.config.CleanupFiles { os.Remove(videoPath) }
CleanupMedia(fs, cfg, p) == IF cfg.CleanupFiles THEN Remove(fs, p) ELSE fs

\* TranscribeYouTubeVideo after TranscribeAudio has returned: it returns
\* the wrapped error, or it removes the media file if configured and
\* returns the result
Cleanup(r) ==
    /\ pc[r] = "Cleaning"
    /\ IF err[r] # NoErr
       THEN /\ Fail(r, Wrap("failed to transcribe audio", err[r]))
            /\ UNCHANGED files
       ELSE /\ files' = CleanupMedia(files, config, videoPath[r])
            /\ pc' = [pc EXCEPT ![r] = "Completed"]
            /\ videoPath' = [videoPath EXCEPT ![r] = NoPath]
            /\ UNCHANGED err
    /\ UNCHANGED <<now, config, dirExists, cancelledAt, child>>
    /\ UNCHANGED detail

\* ------------------------------------------------------------------ Spec
Next ==
    \/ Tick
    \/ \E r \in Runs : Cancel(r)
    \/ \E r \in Runs : Start(r)
    \/ \E r \in Runs : Resolve(r)
    \/ \E r \in Runs : Copy(r)
    \/ \E r \in Runs : FfmpegOpens(r)
    \/ \E r \in Runs : FfmpegExit(r)
    \/ \E r \in Runs : WatchCtx(r)
    \/ \E r \in Runs : LoadAudio(r)
    \/ \E r \in Runs : Process(r)
    \/ \E r \in Runs : Unwind(r)
    \/ \E r \in Runs : Cleanup(r)

Spec == Init /\ [][Next]_vars

TypeOK ==
    /\ now \in 0..NumRuns
    /\ pc \in [Runs -> {"Idle"} \cup Active \cup Terminal]
    /\ child \in [Runs -> {"none", "started", "running", "exited", "killed"}]
    /\ \A p \in DOMAIN files :
          /\ files[p].origin \subseteq Runs
          /\ files[p].by \in Runs
          /\ files[p].whole \in BOOLEAN
          /\ files[p].opened \subseteq Runs
          /\ files[p].by \in files[p].opened
          /\ \A w \in files[p].writers : w[1] \in files[p].opened
          /\ \A w \in files[p].writers : pc[w[1]] \in {"Fetching", "Transcoding"}

\* ------------------------------------------------------------------ claims
WavPath == WavPathOf(OutputDir)

\* the files in the output directory that run r created
FilesBy(r) == {p \in DOMAIN files : files[p].by = r}

\* the media files in the output directory that a writer of run r has
\* opened
MediaOf(r) == {p \in (DOMAIN files) \ {WavPath} : r \in files[p].opened}

\* C1: on the step on which a run returns its result, the media path of
\* the run is in the output directory if the cleanup flag is false and is
\* absent if it is true; and as long as a run has returned its result, the
\* media file it downloaded is in the output directory if the flag is
\* false and is not there if the flag is true, whatever the other runs do
\* meanwhile.
C1_MediaFileFollowsCleanupFlag ==
    /\ [](\A r \in Runs :
            pc[r] = "Completed" => (MediaOf(r) # {} <=> ~config.CleanupFiles))
    /\ [][\A r \in Runs :
            (pc[r] = "Cleaning" /\ pc'[r] = "Completed")
              => (Exists(files', videoPath[r]) <=> ~config.CleanupFiles)]_vars

\* the flag is true: the run has returned its result, its media file is
\* gone, and the media file of another run, which failed, is still there
C1_Witness ==
    \E r, q \in Runs :
        /\ pc[r] = "Completed"
        /\ config.CleanupFiles
        /\ MediaOf(r) = {}
        /\ pc[q] = "Failed"
        /\ MediaOf(q) # {}

\* the flag is false: the run has returned its result and its media file,
\* complete, is in the output directory
C1_WitnessKept ==
    \E r \in Runs :
        /\ pc[r] = "Completed"
        /\ ~config.CleanupFiles
        /\ \E p \in MediaOf(r) : files[p].whole

\* C2 (as claimed): with the cleanup flag set, no file created by a run is
\* left in the output directory once the run has returned, on any exit path.
C2_NoTempFileLeftWithCleanup ==
    \A r \in Runs :
        (config.CleanupFiles /\ pc[r] \in Terminal) => FilesBy(r) = {}

\* TranscribeAudio of run r has returned after convertToWAV had succeeded
PastTranscribeAudio(r) ==
    \/ pc[r] \in {"Cleaning", "Completed"}
    \/ /\ pc[r] = "Failed"
       /\ Has(err[r], "failed to transcribe audio")
       /\ ~Has(err[r], "failed to convert audio to WAV")

\* C3: once convertToWAV has succeeded, the WAV path is absent on the step
\* on which TranscribeAudio returns, and from then on the output directory
\* holds no WAV file that the child of the run has opened (a WAV file that
\* is there belongs to the child of another run), whether TranscribeFile
\* succeeded or failed and whatever the cleanup flag is.
C3_WavRemovedAfterInference ==
    /\ [](\A r \in Runs :
            PastTranscribeAudio(r) =>
                ~(Exists(files, WavPath) /\ r \in files[WavPath].opened))
    /\ [][\A r \in Runs :
            (pc[r] = "Unwinding" /\ pc'[r] # "Unwinding")
              => (pc'[r] = "Cleaning" /\ ~Exists(files', WavPath))]_vars

\* the inference of a run has failed and the run has returned; its WAV file
\* is gone and the WAV path holds the file of another run's child
C3_Witness ==
    \E r \in Runs :
        /\ pc[r] = "Failed"
        /\ Has(err[r], "failed to process audio")
        /\ Exists(files, WavPath)
        /\ r \notin files[WavPath].opened

\* C4 (as claimed): a run whose ctx was cancelled before it started creates
\* no file in the output directory and returns a Cancelled failure (a run
\* that could not create the output directory aside).
C4_CancelledBeforeStartCreatesNothing ==
    \A r \in Runs :
        cancelledAt[r] = "Idle" =>
            /\ FilesBy(r) = {}
            /\ pc[r] # "Completed"
            /\ (pc[r] = "Failed" /\ ~Has(err[r], "failed to create output directory"))
                 => FailureKind(err[r]) = "Cancelled"

\* C5 (as claimed): a run whose ctx was cancelled during the network
\* transfer, the transcoding subprocess or the model inference never
\* reaches Completed.
C5_CancelledBlockingStageNeverCompletes ==
    \A r \in Runs :
        cancelledAt[r] \in {"Fetching", "Transcoding", "Inferring"}
            => pc[r] # "Completed"

\* C6 (as claimed): when downloadVideo returns an error, no file exists at
\* the target media path.
C6_FailedFetchLeavesNoFile ==
    [][\A r \in Runs :
         (pc[r] \in {"Resolving", "Fetching"} /\ pc'[r] = "Failed"
            /\ Has(err'[r], "failed to download video"))
           => ~Exists(files', videoPath[r])]_vars

\* the run ended because its stage observed the cancellation: the command
\* refused to start on a done ctx, or the ctx watcher killed the child
EndedByCancellation(r) ==
    pc[r] = "Failed" /\ (child[r] = "killed" \/ IsCtxErr(err[r]))

\* C7 (as claimed): a run that ended because the cancellation was observed
\* returns a failure classified Cancelled, whichever stage was active.
C7_ObservedCancellationIsCancelled ==
    \A r \in Runs :
        EndedByCancellation(r) => FailureKind(err[r]) = "Cancelled"

\* C8 (as claimed): if the ctx is cancelled while the ffmpeg child is
\* running, the run leaves the transcode stage only with a failure of that
\* stage, and no child is running once a run has returned.
C8_CancelKillsTranscoder ==
    \A r \in Runs :
        /\ cancelledAt[r] = "Transcoding" =>
              /\ pc[r] \in {"Transcoding", "Failed"}
              /\ pc[r] = "Failed" => Has(err[r], "ffmpeg failed")
        /\ pc[r] \in Terminal => child[r] \notin {"started", "running"}

\* C9 (as claimed): two runs executing at the same time have different
\* media file paths.
C9_ConcurrentRunsDistinctPaths ==
    \A r1, r2 \in Runs :
        (r1 # r2 /\ pc[r1] \in Active /\ pc[r2] \in Active)
            => videoPath[r1] # videoPath[r2]

\* C10 (as claimed): the WAV file a run decodes is the one its own
\* transcoder produced from its own media file, and a run deletes no file
\* created by another run that is still executing.
C10_RunsDoNotInterfere ==
    [][\A r \in Runs :
         /\ (pc[r] = "Loading" /\ pc'[r] = "Inferring")
              => (WavRead.by = r /\ WavRead.origin = {r})
         /\ (pc[r] \in Active /\ pc'[r] # pc[r])
              => \A p \in (DOMAIN files) \ (DOMAIN files') :
                    files[p].by = r \/ pc[files[p].by] \notin Active]_vars

\* ================================================================== loadAudioData
\* A file is the sequence of its bytes (0..255).

\* bound: number of 16-bit samples in the payload of a file
MaxSamples == 2

\* header := make([]byte, 44)
HeaderSize == 44

\* samples[i] = float32(sample) / 32768.0
Scale == 32768

Riff == <<82, 73, 70, 70>>
Wave == <<87, 65, 86, 69>>

\* file.Read(header): the bytes of the file that are there, the rest of the
\* buffer stays zero
ReadHeader(file) ==
    [i \in 1..HeaderSize |-> IF i <= Len(file) THEN file[i] ELSE 0]

\* header[from:to], offsets counted from 0, to excluded
Slice(b, from, to) == [i \in 1..(to - from) |-> b[from + i]]

\* binary.LittleEndian.Uint16 / Uint32
Uint16LE(b) == b[1] + 256 * b[2]

Uint32LE(b) == b[1] + 256 * b[2] + 65536 * b[3] + 16777216 * b[4]

\* mutant of Int16: the sample is taken as unsigned
Int16_Unsigned(u) == u

\* int16(u): the two's complement reading of 16 bits
Int16(u) == IF u >= 32768 THEN u - 65536 ELSE u

\* float32(sample) / 32768.0, kept as an exact fraction
Normalize(sample) == [num |-> sample, den |-> Scale]

\* string(header[0:4]) == "RIFF" && string(header[8:12]) == "WAVE"
MagicOK(header) == Slice(header, 0, 4) = Riff /\ Slice(header, 8, 12) = Wave

\* mutant of FormatOK: the sample rate is not looked at
FormatOK_AnyRate(channels, sampleRate, bitsPerSample) ==
    channels = 1 /\ bitsPerSample = 16

\* channels == 1 && sampleRate == 16000 && bitsPerSample == 16
FormatOK(channels, sampleRate, bitsPerSample) ==
    channels = 1 /\ sampleRate = 16000 /\ bitsPerSample = 16

\* mutant of WholeSamples: a trailing odd byte is dropped silently
WholeSamples_Truncating(n) == TRUE

\* len(audioData)%2 == 0
WholeSamples(n) == n % 2 = 0

\* io.ReadAll(file) after the header has been read
ReadAll(file) ==
    IF Len(file) > HeaderSize THEN SubSeq(file, HeaderSize + 1, Len(file)) ELSE <<>>

\* what loadAudioData returns: the samples (nil on error) and the error
Loaded(samples) == [samples |-> samples, isNil |-> FALSE, err |-> NoErr]

LoadFailed(e) == [samples |-> <<>>, isNil |-> TRUE, err |-> e]

loadAudioData(file) ==
    IF Len(file) = 0
    THEN LoadFailed(Wrap("failed to read WAV header", <<"EOF">>))
    ELSE
    LET header == ReadHeader(file)
        channels == Uint16LE(Slice(header, 22, 24))
        sampleRate == Uint32LE(Slice(header, 24, 28))
        bitsPerSample == Uint16LE(Slice(header, 34, 36))
        audioData == ReadAll(file)
    IN  IF ~MagicOK(header)
        THEN LoadFailed(<<"invalid WAV file format">>)
        ELSE IF ~FormatOK(channels, sampleRate, bitsPerSample)
        THEN LoadFailed(<<"unexpected audio format">>)
        ELSE IF ~WholeSamples(Len(audioData))
        THEN LoadFailed(<<"invalid audio data length for 16-bit samples">>)
        ELSE Loaded([i \in 1..(Len(audioData) \div 2) |->
                       Normalize(Int16(Uint16LE(Slice(audioData, (i - 1) * 2, i * 2))))])

\* ------------------------------------------------------------------ files to load
\* The canonical container: the 44-byte header with its fields written
\* little-endian, then the samples as 2-byte little-endian two's complement.
LE(v, n) == [i \in 1..n |-> (v \div (256 ^ (i - 1))) % 256]

EncodeSample(sample) == LE(IF sample < 0 THEN sample + 65536 ELSE sample, 2)

RECURSIVE EncodeSamples(_)
EncodeSamples(pcm) ==
    IF pcm = <<>> THEN <<>>
    ELSE EncodeSample(Head(pcm)) \o EncodeSamples(Tail(pcm))

Fill(n, b) == [i \in 1..n |-> b]

HeaderBytes(h) ==
    h.magic0 \o Fill(4, h.fill) \o h.magic8 \o Fill(10, h.fill)
      \o LE(h.channels, 2) \o LE(h.sampleRate, 4) \o Fill(6, h.fill)
      \o LE(h.bitsPerSample, 2) \o Fill(8, h.fill)

WavFile(in) == HeaderBytes(in.header) \o EncodeSamples(in.pcm) \o in.extra

\* the headers, samples and trailing bytes the files are made of
Headers ==
    [magic0 : {Riff, <<82, 73, 70, 88>>},
     magic8 : {Wave, <<87, 65, 86, 88>>},
     channels : {1, 2, 257},
     sampleRate : {16000, 44100, 81536},
     bitsPerSample : {16, 8, 272},
     fill : {0, 255}]

SampleValues == {-32768, -1, 0, 1, 32767}

SeqsUpTo(S, n) == UNION {[1..k -> S] : k \in 0..n}

WavInputs ==
    [header : Headers,
     pcm : SeqsUpTo(SampleValues, MaxSamples),
     extra : {<<>>, <<127>>}]

HeaderValid(h) ==
    /\ h.magic0 = Riff /\ h.magic8 = Wave
    /\ h.channels = 1 /\ h.sampleRate = 16000 /\ h.bitsPerSample = 16

\* ------------------------------------------------------------------ SpecWav
InitWav ==
    /\ PipelineInit
    /\ config.CleanupFiles
    /\ run = NoDetail
    /\ find = NoDetail
    /\ svc = NoDetail
    /\ \E in \in WavInputs : wav = [pc |-> "ready", in |-> in]

\* the call of loadAudioData on the file
LoadWav ==
    /\ wav.pc = "ready"
    /\ wav' = [pc |-> "done", in |-> wav.in, out |-> loadAudioData(WavFile(wav.in))]
    /\ UNCHANGED <<pipeline, run, find, svc>>

NextWav == LoadWav

SpecWav == InitWav /\ [][NextWav]_vars

\* the header was accepted: the call did not end in one of the header errors
HeaderErrs == {<<"invalid WAV file format">>, <<"unexpected audio format">>}

\* C14: loadAudioData accepts the header if and only if the magics are RIFF
\* and WAVE, the channel count is 1, the sample rate 16000 and the bits per
\* sample 16; any other header is rejected with a format error and no samples.
C14_HeaderAcceptedIffCanonical ==
    wav.pc = "done" =>
        /\ (wav.out.err \notin HeaderErrs) <=> HeaderValid(wav.in.header)
        /\ ~HeaderValid(wav.in.header) => (wav.out.isNil /\ wav.out.samples = <<>>)

C14_Witness ==
    /\ wav.pc = "done"
    /\ wav.in.header.channels = 2
    /\ wav.in.header.sampleRate = 16000 /\ wav.in.header.bitsPerSample = 16
    /\ wav.in.header.magic0 = Riff /\ wav.in.header.magic8 = Wave
    /\ wav.out.err = <<"unexpected audio format">>

\* C15: for a valid header followed by n whole samples, loadAudioData returns
\* exactly n values in the same order, the i-th being sample_i / 32768, each
\* within [-1, 1].
C15_DecodeInvertsEncode ==
    (wav.pc = "done" /\ HeaderValid(wav.in.header) /\ wav.in.extra = <<>>) =>
        /\ wav.out.err = NoErr
        /\ ~wav.out.isNil
        /\ Len(wav.out.samples) = Len(wav.in.pcm)
        /\ \A i \in 1..Len(wav.in.pcm) :
              /\ wav.out.samples[i].num = wav.in.pcm[i]
              /\ wav.out.samples[i].den = 32768
              /\ -wav.out.samples[i].den <= wav.out.samples[i].num
              /\ wav.out.samples[i].num <= wav.out.samples[i].den

C15_Witness ==
    /\ wav.pc = "done"
    /\ HeaderValid(wav.in.header)
    /\ wav.in.pcm = <<-32768, 32767>>
    /\ wav.out.err = NoErr
    /\ Len(wav.out.samples) = 2

\* C16: for a valid header followed by an odd number of bytes, loadAudioData
\* fails with the length error and returns no samples.
C16_OddPayloadRejected ==
    (wav.pc = "done" /\ HeaderValid(wav.in.header)
       /\ (Len(WavFile(wav.in)) - HeaderSize) % 2 = 1) =>
        /\ wav.out.err = <<"invalid audio data length for 16-bit samples">>
        /\ wav.out.isNil
        /\ wav.out.samples = <<>>

C16_Witness ==
    /\ wav.pc = "done"
    /\ HeaderValid(wav.in.header)
    /\ wav.in.pcm = <<1>> /\ wav.in.extra = <<127>>
    /\ wav.out.isNil

\* ================================================================== one run, call by call
\* One call of TranscribeYouTubeVideo whose ctx is never cancelled, followed
\* through every call it makes.  run.calls is the sequence of the calls made
\* so far; the locals of a function are kept while the function is running.

\* bound: number of audio formats of a video
MaxFormats == 3
\* bound: number of segments the engine produces
MaxSegs == 2

Bitrates == {64000, 96000, 128000}

\* texts of a segment, as sequences of characters
SegTexts == {<<>>, <<"a">>, <<" ", "b">>, <<"c", " ">>, <<"\n">>}

Languages == {"", "en"}

\* ------------------------------------------------------------------ strings
\* unicode.IsSpace, for the characters used here
IsSpace(c) == c \in {" ", "\n", "\t", "\r"}

RECURSIVE TrimLeft(_)
TrimLeft(t) == IF t # <<>> /\ IsSpace(Head(t)) THEN TrimLeft(Tail(t)) ELSE t

RECURSIVE TrimRight(_)
TrimRight(t) ==
    IF t # <<>> /\ IsSpace(t[Len(t)]) THEN TrimRight(SubSeq(t, 1, Len(t) - 1)) ELSE t

\* mutant of TrimSpace: only the end of the text is trimmed
TrimSpace_RightOnly(t) == TrimRight(t)

\* strings.TrimSpace
TrimSpace(t) == TrimLeft(TrimRight(t))

\* text.WriteString(segment.Text); text.WriteString("\n")
WriteSegment(text, t) == text \o t \o <<"\n">>

\* ------------------------------------------------------------------ results
NoResult == [isNil |-> TRUE, Text |-> <<>>]

Result(t) == [isNil |-> FALSE, Text |-> t]

\* the error a failing call returns
OpErr(call) == <<call \o " error">>

EOF == <<"EOF">>

\* mutant of IsEOF: the end of the sequence is not recognised
IsEOF_Never(e) == FALSE

\* err == io.EOF
IsEOF(e) == e = EOF

\* mutant of DrainFailure: the text drained so far is returned with the error
DrainFailure_Partial(text, e) ==
    [result |-> Result(TrimSpace(text)), err |-> Wrap("failed to get segment", e)]

\* return nil, fmt.Errorf("failed to get segment: %w", err)
DrainFailure(text, e) ==
    [result |-> NoResult, err |-> Wrap("failed to get segment", e)]

\* ------------------------------------------------------------------ best format
\* mutant of Better: a later format with an equal bitrate replaces the best
Better_OrEqual(a, b) == a >= b

\* format.Bitrate > bestFormat.Bitrate
Better(a, b) == a > b

\* for i := range formats { if bestFormat == nil || better { bestFormat = format } }
\* (the index of bestFormat, 0 for nil)
RECURSIVE BestLoop(_, _, _)
BestLoop(formats, i, best) ==
    IF i > Len(formats) THEN best
    ELSE BestLoop(formats, i + 1,
                  IF best = 0 \/ Better(formats[i], formats[best]) THEN i ELSE best)

BestFormat(formats) == BestLoop(formats, 1, 0)

\* mutant of NoFormats: the empty enumeration is not checked
NoFormats_Unchecked(formats) == FALSE

\* len(formats) == 0
NoFormats(formats) == Len(formats) = 0

\* the error of the format selection, NoErr if a format was selected
SelectErr(formats) ==
    IF NoFormats(formats) THEN <<"no audio formats found for video">>
    ELSE IF BestFormat(formats) = 0 THEN <<"no suitable audio format found">>
    ELSE NoErr

\* mutant of ModelMissing: the model file is not checked
ModelMissing_Unchecked(exists) == FALSE

\* _, err := os.Stat(s.config.WhisperModel); err != nil
ModelMissing(exists) == ~exists

\* ------------------------------------------------------------------ steps
InitRun ==
    /\ PipelineInit
    /\ wav = NoDetail
    /\ find = NoDetail
    /\ svc = NoDetail
    /\ \E m \in BOOLEAN, l \in Languages, d \in BOOLEAN :
         run = [pc |-> "Idle", calls |-> <<>>, modelExists |-> m, language |-> l,
                dir |-> d, open |-> {},
                formats |-> <<>>, best |-> 0, stream |-> 0, temp |-> {},
                text |-> <<>>, segs |-> <<>>, asr |-> NoResult,
                result |-> NoResult, err |-> NoErr]

\* the call c was made and succeeded; the run is at p
Called(c, p) == [run EXCEPT !.pc = p, !.calls = Append(@, c)]

\* &TranscriptionResult{Text: ..., Duration: ...}: the Error field is not set
TranscriptionResult(text) == [isNil |-> FALSE, Text |-> text, Error |-> NoErr]

\* mutant of Failing: a result is returned together with the error
Failing_WithResult(c, e) ==
    [run EXCEPT !.pc = "Failed", !.calls = Append(@, c), !.err = e,
                !.result = TranscriptionResult(<<>>)]

\* the call c was made and TranscribeYouTubeVideo returns the error e
Failing(c, e) == [run EXCEPT !.pc = "Failed", !.calls = Append(@, c), !.err = e]

\* mutant of DownloadReturn: the file is closed on no path
DownloadReturn_StreamOnly(open) == open \ {"stream"}

\* downloadVideo returns: defer file.Close(), defer stream.Close()
DownloadReturn(open) == open \ {"stream", "file"}

\* loadAudioData returns: defer file.Close()
LoadReturn(open) == open \ {"wavfile"}

\* TranscribeFile returns: defer model.Close()
FileReturn(open) == open \ {"model"}

\* like Failing, in downloadVideo: its deferred calls run
FailingDownload(c, e) ==
    [Failing(c, DownloadErr(e)) EXCEPT !.open = DownloadReturn(@)]

\* like Failing, in TranscribeFile: its deferred calls and the deferred
\* os.Remove(wavPath) of TranscribeAudio run
FailingFile(c, e) ==
    [Failing(c, Wrap("failed to transcribe audio", e))
       EXCEPT !.temp = @ \ {"wav"}, !.open = FileReturn(@)]

\* mutant of RunMkdir: the error of os.MkdirAll is ignored
RunMkdir_IgnoresError ==
    /\ run.pc = "Idle"
    /\ \/ run' = [Called("os.MkdirAll", "GetVideo") EXCEPT !.dir = TRUE]
       \/ /\ ~run.dir
          /\ run' = Called("os.MkdirAll", "GetVideo")
    /\ UNCHANGED <<pipeline, wav, find, svc>>

\* os.MkdirAll(s.config.OutputDir, 0755), which fails only when it has a
\* directory to create
RunMkdir ==
    /\ run.pc = "Idle"
    /\ \/ run' = [Called("os.MkdirAll", "GetVideo") EXCEPT !.dir = TRUE]
       \/ /\ ~run.dir
          /\ run' = Failing("os.MkdirAll",
                            Wrap("failed to create output directory", OpErr("os.MkdirAll")))
    /\ UNCHANGED <<pipeline, wav, find, svc>>

RunGetVideo ==
    /\ run.pc = "GetVideo"
    /\ \/ run' = Called("GetVideo", "Formats")
       \/ run' = Failing("GetVideo",
                         DownloadErr(Wrap("failed to get video info", OpErr("GetVideo"))))
    /\ UNCHANGED <<pipeline, wav, find, svc>>

\* video.Formats.WithAudioChannels() and the choice of the best format
RunFormats ==
    /\ run.pc = "Formats"
    /\ \E formats \in SeqsUpTo(Bitrates, MaxFormats) :
         IF SelectErr(formats) # NoErr
         THEN run' = [Failing("WithAudioChannels", DownloadErr(SelectErr(formats)))
                        EXCEPT !.formats = formats]
         ELSE run' = [Called("WithAudioChannels", "GetStream")
                        EXCEPT !.formats = formats, !.best = BestFormat(formats)]
    /\ UNCHANGED <<pipeline, wav, find, svc>>

\* client.GetStream(video, bestFormat)
RunGetStream ==
    /\ run.pc = "GetStream"
    /\ \/ run' = [Called("GetStream", "Create")
                    EXCEPT !.stream = run.best, !.open = @ \cup {"stream"}]
       \/ run' = Failing("GetStream",
                         DownloadErr(Wrap("failed to get video stream", OpErr("GetStream"))))
    /\ UNCHANGED <<pipeline, wav, find, svc>>

\* os.Create(outputPath)
RunCreate ==
    /\ run.pc = "Create"
    /\ \/ run' = [Called("os.Create", "Copy")
                    EXCEPT !.temp = @ \cup {"video"}, !.open = @ \cup {"file"}]
       \/ run' = FailingDownload("os.Create",
                                 Wrap("failed to create output file", OpErr("os.Create")))
    /\ UNCHANGED <<pipeline, wav, find, svc>>

\* mutant of RunCopy: a failed transfer is tried again with a new stream
RunCopy_Retry ==
    /\ run.pc = "Copy"
    /\ \/ run' = [Called("io.Copy", "Convert")
                    EXCEPT !.formats = <<>>, !.best = 0, !.stream = 0,
                           !.open = DownloadReturn(@)]
       \/ run' = [Called("io.Copy", "GetStream") EXCEPT !.open = DownloadReturn(@)]
    /\ UNCHANGED <<pipeline, wav, find, svc>>

\* io.Copy(file, stream); on success downloadVideo returns
RunCopy ==
    /\ run.pc = "Copy"
    /\ \/ run' = [Called("io.Copy", "Convert")
                    EXCEPT !.formats = <<>>, !.best = 0, !.stream = 0,
                           !.open = DownloadReturn(@)]
       \/ run' = FailingDownload("io.Copy",
                                 Wrap("failed to copy video", OpErr("io.Copy")))
    /\ UNCHANGED <<pipeline, wav, find, svc>>

\* convertToWAV: cmd.CombinedOutput().  The child writes the WAV file and
\* exits with status 0; or the command does not start (no ffmpeg, ctx
\* done), the child exits with a non-zero status, it is killed on a done
\* ctx, or Wait returns the ctx error for a child that had exited when the
\* kill was sent.  Nothing removes the WAV file a started child has created
\* before the call failed: the remove is deferred only after convertToWAV
\* has succeeded.
RunConvert ==
    /\ run.pc = "Convert"
    /\ \/ run' = [Called("ffmpeg", "Stat") EXCEPT !.temp = @ \cup {"wav"}]
       \/ run' = Failing("ffmpeg", ConvertErr(StartErr))
       \/ \E e \in {CtxErr, ExitErr, KilledErr}, left \in SUBSET {"wav"} :
             run' = [Failing("ffmpeg", ConvertErr(e)) EXCEPT !.temp = @ \cup left]
    /\ UNCHANGED <<pipeline, wav, find, svc>>

\* TranscribeFile: os.Stat(s.config.WhisperModel)
RunStat ==
    /\ run.pc = "Stat"
    /\ IF ModelMissing(run.modelExists)
       THEN run' = FailingFile("os.Stat", <<"whisper model file not found">>)
       ELSE run' = Called("os.Stat", "New")
    /\ UNCHANGED <<pipeline, wav, find, svc>>

\* whisper.New(s.config.WhisperModel)
RunNew ==
    /\ run.pc = "New"
    /\ \/ run' = [Called("whisper.New", "NewContext") EXCEPT !.open = @ \cup {"model"}]
       \/ run' = FailingFile("whisper.New",
                             Wrap("failed to load whisper model", OpErr("whisper.New")))
    /\ UNCHANGED <<pipeline, wav, find, svc>>

\* model.NewContext()
RunNewContext ==
    /\ run.pc = "NewContext"
    /\ \/ run' = Called("NewContext", "SetLanguage")
       \/ run' = FailingFile("NewContext",
                             Wrap("failed to create whisper context", OpErr("NewContext")))
    /\ UNCHANGED <<pipeline, wav, find, svc>>

\* mutant of HintGiven: the language is set whatever the hint
HintGiven_Always(language) == TRUE

\* s.config.Language != ""
HintGiven(language) == language # ""

\* if s.config.Language != "" { context.SetLanguage(...) }
RunSetLanguage ==
    /\ run.pc = "SetLanguage"
    /\ IF HintGiven(run.language)
       THEN \/ run' = Called("SetLanguage", "LoadAudio")
            \/ run' = FailingFile("SetLanguage",
                                  Wrap("failed to set language", OpErr("SetLanguage")))
       ELSE run' = [run EXCEPT !.pc = "LoadAudio"]
    /\ UNCHANGED <<pipeline, wav, find, svc>>

\* loadAudioData(audioPath)
RunLoadAudio ==
    /\ run.pc = "LoadAudio"
    /\ \/ run' = [Called("loadAudioData", "Process")
                    EXCEPT !.open = LoadReturn(@ \cup {"wavfile"})]
       \/ run' = [FailingFile("loadAudioData",
                              Wrap("failed to load audio data", OpErr("loadAudioData")))
                    EXCEPT !.open = LoadReturn(@ \cup {"wavfile"})]
    /\ UNCHANGED <<pipeline, wav, find, svc>>

\* context.Process(data, nil, nil, nil)
RunProcess ==
    /\ run.pc = "Process"
    /\ \/ run' = Called("Process", "Drain")
       \/ run' = FailingFile("Process",
                             Wrap("failed to process audio", OpErr("Process")))
    /\ UNCHANGED <<pipeline, wav, find, svc>>

\* one turn of the loop around context.NextSegment(), which returns a
\* segment, io.EOF or another error
RunNextSegment ==
    /\ run.pc = "Drain"
    /\ \/ \E t \in SegTexts :
            /\ Len(run.segs) < MaxSegs
            /\ run' = [Called("NextSegment", "Drain")
                         EXCEPT !.segs = Append(@, t), !.text = WriteSegment(@, t)]
       \/ \E e \in {EOF, OpErr("NextSegment")} :
            IF IsEOF(e)
            THEN run' = [Called("NextSegment", "Cleanup")
                           EXCEPT !.asr = Result(TrimSpace(run.text)),
                                  !.temp = @ \ {"wav"}, !.open = FileReturn(@)]
            ELSE run' = [FailingFile("NextSegment", DrainFailure(run.text, e).err)
                           EXCEPT !.asr = DrainFailure(run.text, e).result]
    /\ UNCHANGED <<pipeline, wav, find, svc>>

\* the end of TranscribeYouTubeVideo: the cleanup and the result
RunCleanup ==
    /\ run.pc = "Cleanup"
    /\ run' = [run EXCEPT !.pc = "Completed",
                          !.temp = IF config.CleanupFiles THEN @ \ {"video"} ELSE @,
                          !.result = TranscriptionResult(TrimSpace(run.asr.Text))]
    /\ UNCHANGED <<pipeline, wav, find, svc>>

NextRun ==
    \/ RunMkdir
    \/ RunGetVideo
    \/ RunFormats
    \/ RunGetStream
    \/ RunCreate
    \/ RunCopy
    \/ RunConvert
    \/ RunStat
    \/ RunNew
    \/ RunNewContext
    \/ RunSetLanguage
    \/ RunLoadAudio
    \/ RunProcess
    \/ RunNextSegment
    \/ RunCleanup

SpecRun == InitRun /\ [][NextRun]_vars

\* ------------------------------------------------------------------ C11
\* the stage a call belongs to
StageOf(call) ==
    CASE call \in {"GetVideo", "WithAudioChannels", "GetStream", "os.Create", "io.Copy"}
           -> "Fetcher"
      [] call = "ffmpeg" -> "Transcoder"
      [] call = "loadAudioData" -> "Decoder"
      [] call \in {"os.Stat", "whisper.New", "NewContext", "SetLanguage", "Process",
                   "NextSegment"} -> "Inference"
      [] OTHER -> "Orchestrator"

\* the failure kinds of a stage
StageKinds(stage) ==
    CASE stage = "Fetcher" -> {"SourceUnavailable", "FetchFailed"}
      [] stage = "Transcoder" -> {"TranscodeFailed"}
      [] stage = "Decoder" -> {"InvalidFormat"}
      [] stage = "Inference" -> {"ModelNotFound", "InferenceFailed"}
      [] OTHER -> {}

\* the calls of a run, in the order of the code
CallOrder == <<"os.MkdirAll", "GetVideo", "WithAudioChannels", "GetStream", "os.Create",
               "io.Copy", "ffmpeg", "os.Stat", "whisper.New", "NewContext",
               "SetLanguage", "loadAudioData", "Process", "NextSegment">>

Rank(call) == CHOOSE i \in 1..Len(CallOrder) : CallOrder[i] = call

\* the calls that fail by returning an error, which is the cause of the
\* failure of the run (that the enumeration is empty is found by the code
\* itself: there is no error to carry)
ReturnsCause(call) == call # "WithAudioChannels"

\* the errors the failing call can return
Returned(call) ==
    IF call = "ffmpeg" THEN {StartErr, CtxErr, ExitErr, KilledErr} ELSE {OpErr(call)}

LastCall == run.calls[Len(run.calls)]

\* a stage failed, and not because the command refused to start on a ctx
\* that was done
StageFailed ==
    /\ run.pc = "Failed"
    /\ StageOf(LastCall) # "Orchestrator"
    /\ ~IsCtxErr(run.err)

\* C11 (as claimed): when a stage fails, the error of the run has a failure
\* kind of that stage and carries the error the failing call returned, the
\* failing call is the last call of the run: no call that follows it in the
\* code was made, and the run returns no result.
C11_FirstFailureSurfacesUnchanged ==
    StageFailed =>
        /\ FailureKind(run.err) \in StageKinds(StageOf(LastCall))
        /\ ReturnsCause(LastCall) =>
              \E e \in Returned(LastCall) : Cause(run.err) = Cause(e)
        /\ run.result = NoResult
        /\ \A i \in 1..Len(run.calls) : Rank(run.calls[i]) <= Rank(LastCall)

\* ------------------------------------------------------------------ C12
IsMax(formats, i) == \A j \in 1..Len(formats) : formats[j] <= formats[i]

\* C12: the format selected from a non-empty enumeration has the highest
\* bitrate, no format before it has that bitrate, and it is the format whose
\* stream is requested.
C12_FirstHighestBitrateSelected ==
    run.pc \in {"GetStream", "Create", "Copy"} =>
        /\ run.formats # <<>>
        /\ run.best \in 1..Len(run.formats)
        /\ IsMax(run.formats, run.best)
        /\ \A j \in 1..(run.best - 1) : run.formats[j] < run.formats[run.best]
        /\ run.pc # "GetStream" => run.stream = run.best

C12_Witness ==
    /\ run.pc = "Create"
    /\ run.formats = <<64000, 128000, 128000>>
    /\ run.stream = 2

\* ------------------------------------------------------------------ C13
EmptyEnumeration ==
    /\ run.calls # <<>>
    /\ LastCall = "WithAudioChannels"
    /\ run.formats = <<>>

\* C13: when the video has no audio format, the run fails with
\* SourceUnavailable, no stream is requested and no file is created.
C13_NoCandidatesIsSourceUnavailable ==
    EmptyEnumeration =>
        /\ run.pc = "Failed"
        /\ FailureKind(run.err) = "SourceUnavailable"
        /\ \A i \in 1..Len(run.calls) : run.calls[i] \notin {"GetStream", "os.Create"}
        /\ run.stream = 0
        /\ run.temp = {}

C13_Witness ==
    /\ EmptyEnumeration
    /\ run.pc = "Failed"

\* ------------------------------------------------------------------ C17
EngineCalls == {"whisper.New", "NewContext", "SetLanguage", "Process", "NextSegment"}

\* C17: when the model file does not exist, the engine is never loaded or
\* run, and the transcription fails with ModelNotFound.
C17_MissingModelIsModelNotFound ==
    ~run.modelExists =>
        /\ \A i \in 1..Len(run.calls) : run.calls[i] \notin EngineCalls
        /\ run.pc \notin {"New", "NewContext", "SetLanguage", "LoadAudio", "Process",
                          "Drain", "Cleanup", "Completed"}
        /\ (run.calls # <<>> /\ LastCall = "os.Stat") =>
              /\ run.pc = "Failed"
              /\ FailureKind(run.err) = "ModelNotFound"

C17_Witness ==
    /\ ~run.modelExists
    /\ run.pc = "Failed"
    /\ LastCall = "os.Stat"

\* ------------------------------------------------------------------ C18
DrainFailed ==
    /\ run.pc = "Failed"
    /\ LastCall = "NextSegment"

\* C18: when the engine reports an error while its segments are drained, the
\* run fails with InferenceFailed and returns none of the text drained so far.
C18_DrainErrorReturnsNoText ==
    DrainFailed =>
        /\ FailureKind(run.err) = "InferenceFailed"
        /\ Has(run.err, "failed to get segment")
        /\ run.asr = NoResult
        /\ run.result = NoResult

C18_Witness ==
    /\ DrainFailed
    /\ run.segs = <<<<"a">>>>

\* ------------------------------------------------------------------ C19
\* C19: a run whose engine produces no segment completes with the empty
\* text, and the end of the segments is never reported as an error.
C19_NoSegmentsIsEmptyText ==
    /\ (run.pc = "Completed" /\ run.segs = <<>>) =>
          /\ run.result = TranscriptionResult(<<>>)
          /\ run.err = NoErr
    /\ (run.pc = "Cleanup" /\ run.segs = <<>>) => run.asr = Result(<<>>)
    /\ run.pc = "Failed" => ~Has(run.err, "EOF")

C19_Witness ==
    /\ run.pc = "Completed"
    /\ run.segs = <<>>
    /\ run.result = TranscriptionResult(<<>>)

\* ------------------------------------------------------------------ C20
\* the texts joined by a newline between every two of them
RECURSIVE JoinLines(_)
JoinLines(segs) ==
    IF segs = <<>> THEN <<>>
    ELSE IF Len(segs) = 1 THEN segs[1]
    ELSE segs[1] \o <<"\n">> \o JoinLines(Tail(segs))

AllSpace(t) == \A i \in 1..Len(t) : IsSpace(t[i])

\* t is s without the whitespace at its start and at its end
IsTrimOf(t, s) ==
    /\ t # <<>> => ~IsSpace(t[1]) /\ ~IsSpace(t[Len(t)])
    /\ \E i \in 0..Len(s) :
         /\ i + Len(t) <= Len(s)
         /\ SubSeq(s, i + 1, i + Len(t)) = t
         /\ AllSpace(SubSeq(s, 1, i))
         /\ AllSpace(SubSeq(s, i + Len(t) + 1, Len(s)))

\* t is s without the whitespace at its end
IsRightTrimOf(t, s) ==
    /\ t # <<>> => ~IsSpace(t[Len(t)])
    /\ Len(t) <= Len(s)
    /\ SubSeq(s, 1, Len(t)) = t
    /\ AllSpace(SubSeq(s, Len(t) + 1, Len(s)))

\* C20 as stated: the text of a completed run is the segments in order,
\* joined by a newline, with only the whitespace at the end removed.
C20_OnlyTrailingWhitespaceRemoved ==
    run.pc = "Completed" => IsRightTrimOf(run.result.Text, JoinLines(run.segs))

\* C20: the text of a completed run is the segments in order, joined by a
\* newline, with the whitespace at its start and at its end removed.
C20_TextIsTrimmedJoin ==
    run.pc = "Completed" =>
        /\ ~run.result.isNil
        /\ IsTrimOf(run.result.Text, JoinLines(run.segs))

C20_Witness ==
    /\ run.pc = "Completed"
    /\ run.segs = << <<" ", "b">>, <<"c", " ">> >>
    /\ run.result.Text = <<"b", "\n", "c">>

\* ------------------------------------------------------------------ C21
\* the call c was made in the run
InCalls(c) == \E i \in 1..Len(run.calls) : run.calls[i] = c

\* the run is past the place of the call c in the code
Past(c) == \E i \in 1..Len(run.calls) : Rank(run.calls[i]) > Rank(c)

\* C21: the language is set on the context exactly when the hint is not
\* empty; when the engine rejects the hint the run fails with InferenceFailed
\* and the engine has processed no samples.
C21_LanguageHintAppliedIffGiven ==
    /\ InCalls("SetLanguage") => run.language # ""
    /\ (run.language # "" /\ (Past("SetLanguage") \/ run.pc = "LoadAudio"))
          => InCalls("SetLanguage")
    /\ (run.pc = "Failed" /\ LastCall = "SetLanguage") =>
          /\ FailureKind(run.err) = "InferenceFailed"
          /\ Has(run.err, "failed to set language")
          /\ ~InCalls("Process")
          /\ ~InCalls("NextSegment")

C21_Witness ==
    /\ run.pc = "Failed"
    /\ LastCall = "SetLanguage"
    /\ run.language = "en"

\* ================================================================== FindWhisperModel
\* A path is the sequence of its elements; an absolute path starts with the
\* element "/", and the empty sequence is the empty string.
EmptyPath == <<>>

\* filepath.Clean, for paths without ".." elements
Clean(path) == SelectSeq(path, LAMBDA c : c # ".")

\* filepath.Join(a, b): empty elements are ignored, the result is cleaned
FilepathJoin(a, b) == Clean(a \o b)

\* modelFilename := "ggml-" + modelName + ".bin"
ModelFilename(modelName) == "ggml-" \o modelName \o ".bin"

\* mutant of CommonPaths: the directories of the user come first
CommonPaths_HomeFirst(home) ==
    << FilepathJoin(home, <<".cache", "whisper">>),
       FilepathJoin(home, <<".local", "share", "whisper">>),
       <<".", "models">>,
       <<".", "whisper-models">>,
       <<"/", "usr", "local", "share", "whisper">>,
       <<"/", "opt", "whisper", "models">> >>

\* commonPaths, with home the value of os.Getenv("HOME")
CommonPaths(home) ==
    << <<".", "models">>,
       <<".", "whisper-models">>,
       <<"/", "usr", "local", "share", "whisper">>,
       <<"/", "opt", "whisper", "models">>,
       FilepathJoin(home, <<".cache", "whisper">>),
       FilepathJoin(home, <<".local", "share", "whisper">>) >>

\* _, err := os.Stat(fullPath); err == nil
StatOK(fs, path) == path \in fs

\* for _, basePath := range commonPaths { ... return fullPath }; return ""
RECURSIVE FindLoop(_, _, _, _)
FindLoop(paths, i, filename, fs) ==
    IF i > Len(paths) THEN EmptyPath
    ELSE LET fullPath == FilepathJoin(paths[i], <<filename>>)
         IN  IF StatOK(fs, fullPath) THEN fullPath
             ELSE FindLoop(paths, i + 1, filename, fs)

FindWhisperModel(modelName, home, fs) ==
    FindLoop(CommonPaths(home), 1, ModelFilename(modelName), fs)

\* ------------------------------------------------------------------ SpecFind
ModelNames == {"base", "tiny"}

\* values of HOME: unset, the root directory, a home directory
Homes == {<<>>, <<"/">>, <<"/", "home", "u">>}

\* the directories named by the contract, in its order
SearchDirs(home) ==
    << <<"models">>,
       <<"whisper-models">>,
       <<"/", "usr", "local", "share", "whisper">>,
       <<"/", "opt", "whisper", "models">>,
       home \o <<".cache", "whisper">>,
       home \o <<".local", "share", "whisper">> >>

Candidate(modelName, home, i) == SearchDirs(home)[i] \o <<"ggml-" \o modelName \o ".bin">>

Candidates(modelName, home) == {Candidate(modelName, home, i) : i \in 1..6}

\* files that are not the model looked for
OtherFiles == {<<"models", "ggml-other.bin">>, <<"models">>}

FindInputs ==
    UNION {[modelName : {m}, home : {h}, fs : SUBSET (Candidates(m, h) \cup OtherFiles)] :
             m \in ModelNames, h \in Homes}

InitFind ==
    /\ PipelineInit
    /\ config.CleanupFiles
    /\ wav = NoDetail
    /\ run = NoDetail
    /\ svc = NoDetail
    /\ \E in \in FindInputs : find = [pc |-> "ready", in |-> in]

\* the call of FindWhisperModel
FindCall ==
    /\ find.pc = "ready"
    /\ find' = [pc |-> "done", in |-> find.in,
                out |-> FindWhisperModel(find.in.modelName, find.in.home, find.in.fs)]
    /\ UNCHANGED <<pipeline, wav, run, svc>>

NextFind == FindCall

SpecFind == InitFind /\ [][NextFind]_vars

\* ------------------------------------------------------------------ C22
\* C22: FindWhisperModel returns the path of ggml-<m>.bin in the first of the
\* six directories, in their fixed order, where that file exists, and the
\* empty string when it exists in none; a returned path always exists.
C22_FirstExistingModelPath ==
    find.pc = "done" =>
        LET in == find.in
            exists(i) == Candidate(in.modelName, in.home, i) \in in.fs
        IN  /\ (\A i \in 1..6 : ~exists(i)) <=> find.out = EmptyPath
            /\ find.out # EmptyPath =>
                  /\ find.out \in in.fs
                  /\ \E i \in 1..6 :
                        /\ find.out = Candidate(in.modelName, in.home, i)
                        /\ exists(i)
                        /\ \A j \in 1..(i - 1) : ~exists(j)

C22_Witness ==
    /\ find.pc = "done"
    /\ find.in.modelName = "base"
    /\ find.in.home = <<"/", "home", "u">>
    /\ find.in.fs = {<<"whisper-models", "ggml-base.bin">>,
                     <<"/", "home", "u", ".cache", "whisper", "ggml-base.bin">>,
                     <<"models", "ggml-other.bin">>}
    /\ find.out = <<"whisper-models", "ggml-base.bin">>

\* ================================================================== configuration
\* The configurations live on a heap: svc.heap[p] is the value of the
\* configuration the pointer p refers to, and Nil is the nil pointer.

\* bound: number of services made
MaxServices == 2

Nil == 0

\* the result of an allocation: the heap after it and the new pointer
Alloc(heap, value) == [heap |-> Append(heap, value), ptr |-> Len(heap) + 1]

\* asr.DefaultConfig()
AsrDefaultConfig(heap) ==
    Alloc(heap, [WhisperModel |-> "models/ggml-base.bin", Language |-> ""])

\* mutant of DefaultConfig: one default instance is shared by all callers
DefaultConfig_Shared(heap) ==
    LET made == {p \in 2..Len(heap) :
                   heap[p] = [OutputDir |-> OutputDir, ASRConfig |-> p - 1,
                              CleanupFiles |-> TRUE]}
    IN  IF made # {}
        THEN [heap |-> heap, ptr |-> CHOOSE p \in made : \A q \in made : p <= q]
        ELSE LET a == AsrDefaultConfig(heap)
             IN  Alloc(a.heap, [OutputDir |-> OutputDir, ASRConfig |-> a.ptr,
                                CleanupFiles |-> TRUE])

\* ytaudio.DefaultConfig()
DefaultConfig(heap) ==
    LET a == AsrDefaultConfig(heap)
    IN  Alloc(a.heap, [OutputDir |-> OutputDir, ASRConfig |-> a.ptr,
                       CleanupFiles |-> TRUE])

\* asr.NewService(config)
AsrNewService(heap, cfg) ==
    LET c == IF cfg = Nil THEN AsrDefaultConfig(heap) ELSE [heap |-> heap, ptr |-> cfg]
    IN  [heap |-> c.heap, service |-> [config |-> c.ptr]]

\* mutant of NewService: the configuration of the caller is ignored
NewService_AlwaysDefault(heap, cfg) ==
    LET c == DefaultConfig(heap)
        a == AsrNewService(c.heap, c.heap[c.ptr].ASRConfig)
    IN  [heap |-> a.heap, service |-> [config |-> c.ptr, asrService |-> a.service]]

\* ytaudio.NewService(config)
NewService(heap, cfg) ==
    LET c == IF cfg = Nil THEN DefaultConfig(heap) ELSE [heap |-> heap, ptr |-> cfg]
        a == AsrNewService(c.heap, c.heap[c.ptr].ASRConfig)
    IN  [heap |-> a.heap, service |-> [config |-> c.ptr, asrService |-> a.service]]

\* the settings a run of the service reads: s.config.OutputDir,
\* s.config.CleanupFiles and the WhisperModel and Language of its asr service
Settings(heap, service) ==
    [OutputDir |-> heap[service.config].OutputDir,
     CleanupFiles |-> heap[service.config].CleanupFiles,
     WhisperModel |-> heap[service.asrService.config].WhisperModel,
     Language |-> heap[service.asrService.config].Language]

\* ------------------------------------------------------------------ SpecConfig
\* the configurations a caller writes: &Config{OutputDir: "/custom/path", ...}
\* with or without an asr configuration
CustomConfigs == [withASR : BOOLEAN, CleanupFiles : BOOLEAN]

\* the caller allocates the configuration c
Custom(heap, c) ==
    IF c.withASR
    THEN LET a == Alloc(heap, [WhisperModel |-> "large", Language |-> "en"])
         IN  Alloc(a.heap, [OutputDir |-> "/custom/path", ASRConfig |-> a.ptr,
                            CleanupFiles |-> c.CleanupFiles])
    ELSE Alloc(heap, [OutputDir |-> "/custom/path", ASRConfig |-> Nil,
                      CleanupFiles |-> c.CleanupFiles])

\* the pointers of the heap that refer to a ytaudio configuration
ConfigPtrs(heap) == {p \in 1..Len(heap) : "OutputDir" \in DOMAIN heap[p]}

InitConfig ==
    /\ PipelineInit
    /\ config.CleanupFiles
    /\ wav = NoDetail
    /\ run = NoDetail
    /\ find = NoDetail
    /\ svc = [heap |-> <<>>, services |-> <<>>]

\* the service made from the configuration the pointer refers to
Made(heap, given) ==
    LET n == NewService(heap, given)
    IN  [heap |-> n.heap,
         services |-> Append(svc.services,
                             [service |-> n.service, given |-> given,
                              was |-> IF given = Nil THEN Nil ELSE heap[given],
                              pc |-> "new", atStart |-> Nil])]

\* NewService(nil)
ConstructDefault ==
    /\ Len(svc.services) < MaxServices
    /\ svc' = Made(svc.heap, Nil)
    /\ UNCHANGED <<pipeline, wav, run, find>>

\* NewService(&Config{...}) with a configuration of the caller
ConstructCustom ==
    /\ Len(svc.services) < MaxServices
    /\ \E c \in CustomConfigs :
         LET given == Custom(svc.heap, c) IN svc' = Made(given.heap, given.ptr)
    /\ UNCHANGED <<pipeline, wav, run, find>>

\* NewService(c) with a configuration another service was made from
ConstructShared ==
    /\ Len(svc.services) < MaxServices
    /\ \E p \in ConfigPtrs(svc.heap) : svc' = Made(svc.heap, p)
    /\ UNCHANGED <<pipeline, wav, run, find>>

\* a run of the service i starts: it reads the settings
RunBegin(i) ==
    /\ svc.services[i].pc = "new"
    /\ svc' = [svc EXCEPT !.services[i].pc = "running",
                          !.services[i].atStart = Settings(svc.heap, svc.services[i].service)]
    /\ UNCHANGED <<pipeline, wav, run, find>>

\* the run of the service i returns: no statement of it assigns to a
\* field of a configuration
RunEnd(i) ==
    /\ svc.services[i].pc = "running"
    /\ svc' = [svc EXCEPT !.services[i].pc = "returned"]
    /\ UNCHANGED <<pipeline, wav, run, find>>

NextConfig ==
    \/ ConstructDefault
    \/ ConstructCustom
    \/ ConstructShared
    \/ \E i \in 1..Len(svc.services) : RunBegin(i)
    \/ \E i \in 1..Len(svc.services) : RunEnd(i)

SpecConfig == InitConfig /\ [][NextConfig]_vars

\* ------------------------------------------------------------------ C23
Services == {svc.services[i] : i \in 1..Len(svc.services)}

\* C23: a service made with a nil configuration has a configuration with the
\* default settings (/tmp/ytaudio, models/ggml-base.bin, no language, cleanup
\* on); a service made with a configuration keeps that configuration, with
\* the values the caller gave it.
C23_DefaultsAndCustomConfig ==
    \A s \in Services :
        /\ s.given = Nil =>
              /\ s.service.config # Nil
              /\ svc.heap[s.service.config].OutputDir = "/tmp/ytaudio"
              /\ svc.heap[s.service.config].CleanupFiles = TRUE
              /\ svc.heap[s.service.config].ASRConfig # Nil
              /\ svc.heap[svc.heap[s.service.config].ASRConfig] =
                    [WhisperModel |-> "models/ggml-base.bin", Language |-> ""]
              /\ Settings(svc.heap, s.service) =
                    [OutputDir |-> "/tmp/ytaudio", CleanupFiles |-> TRUE,
                     WhisperModel |-> "models/ggml-base.bin", Language |-> ""]
        /\ s.given # Nil =>
              /\ s.service.config = s.given
              /\ svc.heap[s.service.config] = s.was

C23_Witness ==
    /\ Len(svc.services) = 2
    /\ svc.services[1].given = Nil
    /\ svc.services[2].given # Nil
    /\ Settings(svc.heap, svc.services[2].service) =
          [OutputDir |-> "/custom/path", CleanupFiles |-> FALSE,
           WhisperModel |-> "large", Language |-> "en"]

\* ------------------------------------------------------------------ C24
\* C24: the settings a run reads are the same while it runs and when it has
\* returned as when it started, and two services made with a nil
\* configuration have configurations of their own.
C24_ConfigurationNotWritten ==
    /\ \A s \in Services :
          s.pc \in {"running", "returned"} => Settings(svc.heap, s.service) = s.atStart
    /\ \A i, j \in 1..Len(svc.services) :
          (i # j /\ svc.services[i].given = Nil /\ svc.services[j].given = Nil) =>
             /\ svc.services[i].service.config # svc.services[j].service.config
             /\ svc.services[i].service.asrService.config #
                   svc.services[j].service.asrService.config

C24_Witness ==
    /\ Len(svc.services) = 2
    /\ \A i \in 1..2 : svc.services[i].given = Nil /\ svc.services[i].pc = "returned"

\* ------------------------------------------------------------------ C25
\* the call that is the stage: the stream resolution, the transfer, the
\* transcoder child, the decode, the Process call of the engine
StageCalls == <<"GetStream", "io.Copy", "ffmpeg", "loadAudioData", "Process">>

\* how often the call c was made in the run
Count(c) == Cardinality({i \in 1..Len(run.calls) : run.calls[i] = c})

\* the place of the first call c in the run
Index(c) == CHOOSE i \in 1..Len(run.calls) : run.calls[i] = c

StagesOrdered ==
    /\ \A k \in 1..Len(StageCalls) : Count(StageCalls[k]) <= 1
    /\ \A k \in 1..(Len(StageCalls) - 1) :
          InCalls(StageCalls[k + 1]) =>
             /\ InCalls(StageCalls[k])
             /\ Index(StageCalls[k]) < Index(StageCalls[k + 1])
    /\ run.pc = "Failed" => run.err # NoErr
    /\ run.pc = "Completed" => \A k \in 1..Len(StageCalls) : InCalls(StageCalls[k])

\* C25: the stages of a run are executed in the fixed order, each at most
\* once and only after the one before it, a completed run has executed all
\* of them, and no step leaves Completed or Failed.
C25_StagesInFixedOrder ==
    /\ []StagesOrdered
    /\ [][run.pc \in Terminal => run' = run]_vars

C25_Witness ==
    /\ run.pc = "Completed"
    /\ \A k \in 1..Len(StageCalls) : Count(StageCalls[k]) = 1

\* ------------------------------------------------------------------ C26
\* C26: when the run has returned, with a result or with the error of any
\* call, the stream, the media file, the WAV file and the model it opened
\* are closed; the stream and the media file are closed when downloadVideo
\* has returned.
C26_ResourcesReleasedOnReturn ==
    /\ run.pc \in Terminal => run.open = {}
    /\ InCalls("ffmpeg") => run.open \cap {"stream", "file"} = {}
    /\ run.open \subseteq {"stream", "file", "model"}

C26_Witness ==
    /\ run.pc = "Failed"
    /\ LastCall = "io.Copy"
    /\ InCalls("GetStream")
    /\ InCalls("os.Create")
    /\ run.open = {}

\* ------------------------------------------------------------------ C27
\* C27: the model file is checked once in a run, after the transfer and the
\* transcoder have succeeded and before the WAV file is decoded; when the
\* model is missing the run fails there with ModelNotFound and the decoder
\* is never called.
C27_ModelCheckedAfterTranscode ==
    /\ Count("os.Stat") <= 1
    /\ InCalls("os.Stat") =>
          /\ InCalls("io.Copy") /\ Index("io.Copy") < Index("os.Stat")
          /\ InCalls("ffmpeg") /\ Index("ffmpeg") < Index("os.Stat")
    /\ InCalls("loadAudioData") =>
          /\ InCalls("os.Stat") /\ Index("os.Stat") < Index("loadAudioData")
          /\ run.modelExists
    /\ (~run.modelExists /\ InCalls("ffmpeg") /\ run.pc # "Stat") =>
          /\ run.pc = "Failed"
          /\ LastCall \in {"ffmpeg", "os.Stat"}
          /\ LastCall = "os.Stat" => FailureKind(run.err) = "ModelNotFound"

C27_Witness ==
    /\ ~run.modelExists
    /\ run.pc = "Failed"
    /\ run.calls = <<"os.MkdirAll", "GetVideo", "WithAudioChannels", "GetStream",
                     "os.Create", "io.Copy", "ffmpeg", "os.Stat">>

\* ------------------------------------------------------------------ C28
\* C28: the first call of a run is os.MkdirAll on the output directory, the
\* directory exists when any later call is made, and when os.MkdirAll fails
\* the run returns its error without making another call.
C28_OutputDirCreatedFirst ==
    /\ run.calls # <<>> => run.calls[1] = "os.MkdirAll"
    /\ Len(run.calls) > 1 => run.dir
    /\ Count("os.MkdirAll") <= 1
    /\ (run.pc = "Failed" /\ LastCall = "os.MkdirAll") =>
          /\ run.calls = <<"os.MkdirAll">>
          /\ Has(run.err, "failed to create output directory")
          /\ run.result = NoResult
          /\ run.temp = {}

C28_Witness ==
    /\ run.pc = "Failed"
    /\ run.calls = <<"os.MkdirAll">>
    /\ ~run.dir

\* ------------------------------------------------------------------ C30
\* C30: a returned run has a result exactly when it has no error, a result
\* has no error in its Error field, and a result is returned only by a run
\* all of whose stages succeeded.
C30_ResultXorError ==
    /\ run.pc \in Terminal => (run.result.isNil <=> run.err # NoErr)
    /\ ~run.result.isNil =>
          /\ run.pc = "Completed"
          /\ run.result.Error = NoErr
          /\ run.err = NoErr
          /\ \A k \in 1..Len(StageCalls) : InCalls(StageCalls[k])
    /\ run.pc = "Failed" => run.result = NoResult
    /\ run.pc = "Completed" => ~run.result.isNil

C30_Witness ==
    /\ run.pc = "Completed"
    /\ ~run.result.isNil
    /\ run.result.Error = NoErr
    /\ run.result.Text = <<"a">>

\* ================================================================== short files
\* loadAudioData on files that end before the 44th byte of the header.

\* lengths of the files: empty, inside each field, and 36 to 43 bytes
ShortLens == {0, 1, 4, 12, 23, 24, 28, 35, 36, 40, 43}

ShortInputs == [header : Headers, len : ShortLens]

\* the first len bytes of the file
Truncated(file, len) == SubSeq(file, 1, len)

ShortFile(in) == Truncated(HeaderBytes(in.header), in.len)

InitShort ==
    /\ PipelineInit
    /\ config.CleanupFiles
    /\ run = NoDetail
    /\ find = NoDetail
    /\ svc = NoDetail
    /\ \E in \in ShortInputs : wav = [pc |-> "short", in |-> in]

\* the call of loadAudioData on the short file
LoadShort ==
    /\ wav.pc = "short"
    /\ wav' = [pc |-> "done", in |-> wav.in, out |-> loadAudioData(ShortFile(wav.in))]
    /\ UNCHANGED <<pipeline, run, find, svc>>

NextShort == LoadShort

SpecShort == InitShort /\ [][NextShort]_vars

\* ------------------------------------------------------------------ C29
\* C29: for every file shorter than the 44 bytes of the header,
\* loadAudioData returns an error and no samples.
C29_ShortFileRejected ==
    (wav.pc = "done" /\ Len(ShortFile(wav.in)) < HeaderSize) =>
        /\ wav.out.err # NoErr
        /\ wav.out.isNil
====
